---- MODULE Spec2Model ----
(***************************************************************************)
(* PDF field filler (src/main.py): the POST /fill-pdf handler, the         *)
(* PDFFieldFiller pipeline (download, group by page, overlay per field,    *)
(* merge, write, upload) and the coordinate mapping.                       *)
(*                                                                         *)
(* Two worker processes serve one request each; they share the process     *)
(* environment (SUPABASE_URL / SUPABASE_KEY), the working directory in     *)
(* which create_overlay stages its scratch image, and the wall clock that  *)
(* names the scratch file.                                                 *)
(***************************************************************************)
EXTENDS Integers, Sequences, FiniteSets, TLC

\* ------------------------------------------------------------------ bounds

\* Longest list of field instructions of a request.
MaxFields == 3
\* Most pages of a source document.
MaxPages == 2
\* Last reading of the wall clock (readings are 0..MaxClock).
MaxClock == 1
\* Significand width of the scaled-down binary floating point format.
MantissaBits == 3
\* Largest coordinate fed to convert_anvil_coordinates.
MaxCoord == 20

\* --------------------------------------------------------------- constants

\* Worker processes serving POST /fill-pdf.
Workers == {"w1", "w2"}

NoRequest == [none |-> "request"]
NoFile == [none |-> "file"]
NoPath == -1
NoResponse == [none |-> "response"]
NoDoc == <<[none |-> "doc"]>>
NoCall == [none |-> "call"]

\* Field contents, as the characters of field_answer.
HttpUrl == <<"h", "t", "t", "p", ":", "/", "/", "s">>
HttpWord == <<"h", "t", "t", "p", "d">>
FtpUrl == <<"f", "t", "p", ":", "/", "/", "s">>
PlainText == <<"J", "o">>
Answers == {HttpUrl, HttpWord, FtpUrl, PlainText}

FieldTypes == {"text", "signature"}

\* field_page_num: from one index below the document to one beyond the
\* longest document.
PageNums == -1 .. MaxPages

FieldData == [field_type : FieldTypes, field_page_num : PageNums, field_answer : Answers]

\* Sequences over S of length at most n.
SeqUpTo(S, n) == UNION {[1 .. k -> S] : k \in 0 .. n}

\* The usual instructions: a literal text or a signature given by URL, on the
\* first or the second page (which a one-page document does not have).
UsualFields ==
    {f \in FieldData :
        /\ f.field_page_num \in 0 .. 1
        /\ \/ f.field_type = "text" /\ f.field_answer = PlainText
           \/ f.field_type = "signature" /\ f.field_answer = HttpUrl}

\* A request together with the source document its pdf_url names: any list
\* of usual instructions, or one instruction of any type and answer.
FillPDFRequest ==
    [numPages : 1 .. MaxPages, fields : SeqUpTo(UsualFields, MaxFields)]
        \cup [numPages : 1 .. MaxPages, fields : [1 .. 1 -> FieldData]]

\* The requests two workers serve at overlapping times.
SignatureRequest ==
    {r \in [numPages : {1}, fields : [1 .. 1 -> FieldData]] :
        /\ r.fields[1].field_page_num = 0
        /\ r.fields[1].field_type = "signature"}

VARIABLES
    env,             \* SUPABASE_URL / SUPABASE_KEY: whether each is set
    request,         \* per worker: the request being served
    pc,              \* per worker: position in the handler
    fields_by_page,  \* per worker: page number -> indices of its fields
    page_num,        \* per worker: the page loop's counter
    fpos,            \* per worker: position in fields_by_page[page_num]
    pages,           \* per worker: pdf_reader.pages, the overlays merged on each
    writer,          \* per worker: pdf_writer's pages
    can,             \* per worker: the canvas of the overlay being drawn
    temp_img_path,   \* per worker: the scratch file's name
    log,             \* per worker: calls made (source, render, fetch, upload)
    uploaded,        \* per worker: the document stored by upload
    response,        \* per worker: the HTTP response
    files,           \* the working directory: name -> content
    now,             \* the last reading of the wall clock
    mapper           \* a call of convert_anvil_coordinates and its result

vars == <<env, request, pc, fields_by_page, page_num, fpos, pages, writer, can,
          temp_img_path, log, uploaded, response, files, now, mapper>>

\* --------------------------------------------------------- pure functions

\* str.startswith
StartsWith(s, prefix) ==
    /\ Len(s) >= Len(prefix)
    /\ SubSeq(s, 1, Len(prefix)) = prefix

HttpPrefix == <<"h", "t", "t", "p">>

\* create_overlay's test for the image branch.
IsImageField(field) ==
    LET answer == field.field_answer
        is_signature == \/ field.field_type \in {"signature", "signatureDate"}
                        \/ StartsWith(answer, HttpPrefix)
    IN  is_signature /\ StartsWith(answer, HttpPrefix)

\* requests.get in download_file: a URL it can issue has an http(s) scheme
\* and a host; anything else raises before any connection.
RequestsAccepts(url) ==
    \/ StartsWith(url, <<"h", "t", "t", "p", ":", "/", "/">>) /\ Len(url) > 7
    \/ StartsWith(url, <<"h", "t", "t", "p", "s", ":", "/", "/">>) /\ Len(url) > 8

\* The configuration test with "and" for "or".
ConfigMissingBoth(e) == ~e.url /\ ~e.key

\* The handler's configuration test.
ConfigMissing(e) == ~e.url \/ ~e.key

\* The grouping step putting field i at the front of its page's list.
GroupStepPrepend(acc, p, i) ==
    IF p \notin DOMAIN acc THEN acc @@ (p :> <<i>>)
    ELSE [acc EXCEPT ![p] = <<i>> \o @]

\* One iteration of the grouping loop: field i goes to the end of its page's list.
GroupStep(acc, p, i) ==
    IF p \notin DOMAIN acc THEN acc @@ (p :> <<i>>)
    ELSE [acc EXCEPT ![p] = Append(@, i)]

\* The grouping loop taking field_page_num for a 1-based page number.
RECURSIVE GroupFromOneBased(_, _, _)
GroupFromOneBased(fields, i, acc) ==
    IF i > Len(fields) THEN acc
    ELSE GroupFromOneBased(fields, i + 1, GroupStep(acc, fields[i].field_page_num - 1, i))

RECURSIVE GroupFrom(_, _, _)
GroupFrom(fields, i, acc) ==
    IF i > Len(fields) THEN acc
    ELSE GroupFrom(fields, i + 1, GroupStep(acc, fields[i].field_page_num, i))

EmptyMap == [p \in {} |-> <<>>]

GroupFields(fields) == GroupFrom(fields, 1, EmptyMap)

\* Floating point, scaled down: a float is an integer whose magnitude has at
\* most MantissaBits significant bits; every operation rounds its exact
\* result to the nearest float, ties to the even significand.
RECURSIVE Pow2(_)
Pow2(n) == IF n = 0 THEN 1 ELSE 2 * Pow2(n - 1)

RECURSIVE Exponent(_, _)
Exponent(n, e) == IF n \div Pow2(e) < Pow2(MantissaBits) THEN e ELSE Exponent(n, e + 1)

RoundNat(n) ==
    LET e == Exponent(n, 0)
        q == n \div Pow2(e)
        r == n % Pow2(e)
        half == Pow2(e) \div 2
        up == r > half \/ (r = half /\ r > 0 /\ q % 2 = 1)
    IN  (IF up THEN q + 1 ELSE q) * Pow2(e)

Round(x) == IF x >= 0 THEN RoundNat(x) ELSE 0 - RoundNat(0 - x)

FloatSub(a, b) == Round(a - b)
FloatAdd(a, b) == Round(a + b)

\* convert_anvil_coordinates with the field's height left out.
convert_without_height(anvil_y, page_height, field_height) ==
    FloatSub(page_height, anvil_y)

\* pdf_y = page_height - anvil_y - field_height, evaluated left to right.
convert_anvil_coordinates(anvil_y, page_height, field_height) ==
    FloatSub(FloatSub(page_height, anvil_y), field_height)

\* The floats among the coordinates up to MaxCoord.
Floats == {v \in (0 - MaxCoord) .. MaxCoord : Round(v) = v}

\* What the canvas holds.
TextOp(answer) == [op |-> "drawString", inset |-> 3, text |-> answer]
ImageOp(content) == [op |-> "drawImage", inset |-> 2, image |-> content]
ErrorLabel == [op |-> "drawString", inset |-> 2, text |-> <<"[Signature Error]">>]

\* ------------------------------------------------------------------- state

InitWith(reqs) ==
    /\ env \in [url : BOOLEAN, key : BOOLEAN]
    /\ request = reqs
    /\ pc = [w \in Workers |-> IF reqs[w] = NoRequest THEN "off" ELSE "start"]
    /\ fields_by_page = [w \in Workers |-> EmptyMap]
    /\ page_num = [w \in Workers |-> 0]
    /\ fpos = [w \in Workers |-> 0]
    /\ pages = [w \in Workers |-> <<>>]
    /\ writer = [w \in Workers |-> <<>>]
    /\ can = [w \in Workers |-> <<>>]
    /\ temp_img_path = [w \in Workers |-> NoPath]
    /\ log = [w \in Workers |-> <<>>]
    /\ uploaded = [w \in Workers |-> NoDoc]
    /\ response = [w \in Workers |-> NoResponse]
    /\ files = [n \in 0 .. MaxClock |-> NoFile]
    /\ now = 0
    /\ mapper = NoCall

\* One worker serves any request, or both serve a signature request at once.
Init ==
    \/ \E r \in FillPDFRequest :
          InitWith([w \in Workers |-> IF w = "w1" THEN r ELSE NoRequest])
    \/ \E reqs \in [Workers -> SignatureRequest] : InitWith(reqs)

\* The field create_overlay is working on, as its index in request.fields.
CurIndex(w) == fields_by_page[w][page_num[w]][fpos[w]]
CurField(w) == request[w].fields[CurIndex(w)]

\* The handler answering a failure with an ordinary response body.
FailReturnsResponse(w, why) ==
    /\ pc' = [pc EXCEPT ![w] = "done"]
    /\ response' = [response EXCEPT ![w] = [status |-> 200, success |-> FALSE, detail |-> why]]

\* except Exception in the handler: the request ends in HTTP 500.
Fail(w, why) ==
    /\ pc' = [pc EXCEPT ![w] = "done"]
    /\ response' = [response EXCEPT ![w] = [status |-> 500, success |-> FALSE, detail |-> why]]

\* ------------------------------------------------- the POST /fill-pdf handler

\* Lines 259-267: reject when the storage URL or key is absent, else go on.
CheckConfig(w) ==
    /\ pc[w] = "start"
    /\ IF ConfigMissing(env)
       THEN Fail(w, "config")
       ELSE /\ pc' = [pc EXCEPT ![w] = "download"]
            /\ UNCHANGED response
    /\ UNCHANGED <<env, request, fields_by_page, page_num, fpos, pages, writer, can,
                   temp_img_path, log, uploaded, files, now, mapper>>

\* fill_pdf, lines 181-193: download and decode the source, group the fields.
\* The download or the decoding may fail, which ends the request.
DownloadSource(w) ==
    /\ pc[w] = "download"
    /\ log' = [log EXCEPT ![w] = Append(@, <<"source">>)]
    /\ \E ok \in BOOLEAN :
         IF ok
         THEN /\ pages' = [pages EXCEPT ![w] = [i \in 1 .. request[w].numPages |-> <<>>]]
              /\ fields_by_page' = [fields_by_page EXCEPT ![w] = GroupFields(request[w].fields)]
              /\ page_num' = [page_num EXCEPT ![w] = 0]
              /\ pc' = [pc EXCEPT ![w] = "page"]
              /\ UNCHANGED response
         ELSE /\ Fail(w, "source")
              /\ UNCHANGED <<pages, fields_by_page, page_num>>
    /\ UNCHANGED <<env, request, fpos, writer, can, temp_img_path, uploaded, files, now,
                   mapper>>

\* pdf_writer.add_page(page) and the loop's increment.
AddPage(w) ==
    /\ writer' = [writer EXCEPT ![w] =
                     Append(@, [src |-> page_num[w], merges |-> pages'[w][page_num[w] + 1]])]
    /\ page_num' = [page_num EXCEPT ![w] = @ + 1]

\* The page loop adding only the pages that have fields.
NextPageSkips(w) ==
    /\ pc[w] = "page"
    /\ IF page_num[w] < Len(pages[w])
       THEN IF page_num[w] \in DOMAIN fields_by_page[w]
            THEN /\ fpos' = [fpos EXCEPT ![w] = 1]
                 /\ pc' = [pc EXCEPT ![w] = "overlay"]
                 /\ UNCHANGED <<pages, writer, page_num>>
            ELSE /\ UNCHANGED <<pages, fpos, pc, writer>>
                 /\ page_num' = [page_num EXCEPT ![w] = @ + 1]
       ELSE /\ pc' = [pc EXCEPT ![w] = "upload"]
            /\ UNCHANGED <<pages, writer, page_num, fpos>>
    /\ UNCHANGED <<env, request, fields_by_page, can, temp_img_path, log, uploaded,
                   response, files, now, mapper>>

\* fill_pdf, lines 198-221: the head of the page loop. A page with fields
\* starts its overlays, a page without is added as it is, and after the last
\* page the output is written and fill_pdf returns.
NextPage(w) ==
    /\ pc[w] = "page"
    /\ IF page_num[w] < Len(pages[w])
       THEN IF page_num[w] \in DOMAIN fields_by_page[w]
            THEN /\ fpos' = [fpos EXCEPT ![w] = 1]
                 /\ pc' = [pc EXCEPT ![w] = "overlay"]
                 /\ UNCHANGED <<pages, writer, page_num>>
            ELSE /\ UNCHANGED <<pages, fpos, pc>>
                 /\ AddPage(w)
       ELSE /\ pc' = [pc EXCEPT ![w] = "upload"]
            /\ UNCHANGED <<pages, writer, page_num, fpos>>
    /\ UNCHANGED <<env, request, fields_by_page, can, temp_img_path, log, uploaded,
                   response, files, now, mapper>>

\* create_overlay, lines 107-129 and 163-172: a fresh canvas; an image field
\* goes on to fetch its image, any other field has its answer drawn as text.
CreateOverlay(w) ==
    /\ pc[w] = "overlay"
    /\ log' = [log EXCEPT ![w] = Append(@, <<"render", CurIndex(w)>>)]
    /\ temp_img_path' = [temp_img_path EXCEPT ![w] = NoPath]
    /\ IF IsImageField(CurField(w))
       THEN /\ can' = [can EXCEPT ![w] = <<>>]
            /\ pc' = [pc EXCEPT ![w] = "fetch"]
       ELSE /\ can' = [can EXCEPT ![w] = <<TextOp(CurField(w).field_answer)>>]
            /\ pc' = [pc EXCEPT ![w] = "merge"]
    /\ UNCHANGED <<env, request, fields_by_page, page_num, fpos, pages, writer, uploaded,
                   response, files, now, mapper>>

\* The except branch drawing nothing.
SignatureErrorSilent(w) ==
    /\ can' = [can EXCEPT ![w] = <<>>]
    /\ pc' = [pc EXCEPT ![w] = "merge"]

\* except Exception in create_overlay, lines 158-161: the error label is
\* drawn on the canvas and create_overlay returns its overlay.
SignatureError(w) ==
    /\ can' = [can EXCEPT ![w] = Append(@, ErrorLabel)]
    /\ pc' = [pc EXCEPT ![w] = "merge"]

\* Lines 133-134: download_file(answer) and Image.open. requests refuses an
\* answer that is no http(s) URL; the network or the decoding may fail.
FetchImage(w) ==
    /\ pc[w] = "fetch"
    /\ \E ok \in BOOLEAN :
         /\ ok => RequestsAccepts(CurField(w).field_answer)
         /\ log' = [log EXCEPT ![w] =
                      Append(@, <<"fetch", CurIndex(w), IF ok THEN "ok" ELSE "error">>)]
         /\ IF ok
            THEN /\ pc' = [pc EXCEPT ![w] = "name"]
                 /\ UNCHANGED can
            ELSE SignatureError(w)
    /\ UNCHANGED <<env, request, fields_by_page, page_num, fpos, pages, writer,
                   temp_img_path, uploaded, response, files, now, mapper>>

\* Line 137: the scratch file is named after a reading of the wall clock,
\* which is no earlier than the last reading and may equal it.
NameTemp(w) ==
    /\ pc[w] = "name"
    /\ \E t \in now .. MaxClock :
         /\ now' = t
         /\ temp_img_path' = [temp_img_path EXCEPT ![w] = t]
    /\ pc' = [pc EXCEPT ![w] = "save"]
    /\ UNCHANGED <<env, request, fields_by_page, page_num, fpos, pages, writer, can, log,
                   uploaded, response, files, mapper>>

\* What img.save writes for worker w's current field.
OwnImage(w) == [owner |-> w, field |-> CurIndex(w), good |-> TRUE]
Truncated(w) == [owner |-> w, field |-> CurIndex(w), good |-> FALSE]

\* Line 138: img.save(temp_img_path). It writes the file, or fails leaving
\* either nothing new or a truncated file under that name.
SaveImage(w) ==
    /\ pc[w] = "save"
    /\ \/ /\ files' = [files EXCEPT ![temp_img_path[w]] = OwnImage(w)]
          /\ pc' = [pc EXCEPT ![w] = "draw"]
          /\ UNCHANGED can
       \/ /\ \E left \in BOOLEAN :
               files' = IF left THEN [files EXCEPT ![temp_img_path[w]] = Truncated(w)]
                        ELSE files
          /\ SignatureError(w)
    /\ UNCHANGED <<env, request, fields_by_page, page_num, fpos, pages, writer,
                   temp_img_path, log, uploaded, response, now, mapper>>

\* Lines 142-150: can.drawImage(temp_img_path, ...) reads the file under that
\* name, whatever it holds now; it fails when there is none, when the file
\* is no image, or in rendering.
DrawImage(w) ==
    /\ pc[w] = "draw"
    /\ \/ /\ files[temp_img_path[w]] # NoFile
          /\ files[temp_img_path[w]].good
          /\ can' = [can EXCEPT ![w] = Append(@, ImageOp([owner |-> files[temp_img_path[w]].owner,
                                                          field |-> files[temp_img_path[w]].field]))]
          /\ pc' = [pc EXCEPT ![w] = "exists"]
       \/ SignatureError(w)
    /\ UNCHANGED <<env, request, fields_by_page, page_num, fpos, pages, writer,
                   temp_img_path, log, uploaded, response, files, now, mapper>>

\* Line 155: os.path.exists(temp_img_path).
CheckExists(w) ==
    /\ pc[w] = "exists"
    /\ pc' = [pc EXCEPT ![w] = IF files[temp_img_path[w]] # NoFile THEN "remove" ELSE "merge"]
    /\ UNCHANGED <<env, request, fields_by_page, page_num, fpos, pages, writer, can,
                   temp_img_path, log, uploaded, response, files, now, mapper>>

\* Line 156: os.remove(temp_img_path), which raises when the file is gone.
RemoveTemp(w) ==
    /\ pc[w] = "remove"
    /\ IF files[temp_img_path[w]] # NoFile
       THEN /\ files' = [files EXCEPT ![temp_img_path[w]] = NoFile]
            /\ pc' = [pc EXCEPT ![w] = "merge"]
            /\ UNCHANGED can
       ELSE /\ SignatureError(w)
            /\ UNCHANGED files
    /\ UNCHANGED <<env, request, fields_by_page, page_num, fpos, pages, writer,
                   temp_img_path, log, uploaded, response, now, mapper>>

\* fill_pdf, lines 210-215: create_overlay has returned; its overlay is
\* merged onto the page (a malformed page makes the merge raise), then the
\* next field of the page follows or the page is added to the writer.
MergeOverlay(w) ==
    /\ pc[w] = "merge"
    /\ \E ok \in BOOLEAN :
         IF ok
         THEN /\ pages' = [pages EXCEPT ![w][page_num[w] + 1] =
                             Append(@, [field |-> CurIndex(w), ops |-> can[w]])]
              /\ IF fpos[w] < Len(fields_by_page[w][page_num[w]])
                 THEN /\ fpos' = [fpos EXCEPT ![w] = @ + 1]
                      /\ pc' = [pc EXCEPT ![w] = "overlay"]
                      /\ UNCHANGED <<writer, page_num>>
                 ELSE /\ AddPage(w)
                      /\ pc' = [pc EXCEPT ![w] = "page"]
                      /\ UNCHANGED fpos
              /\ UNCHANGED response
         ELSE /\ Fail(w, "merge")
              /\ UNCHANGED <<pages, fpos, writer, page_num>>
    /\ UNCHANGED <<env, request, fields_by_page, can, temp_img_path, log, uploaded, files,
                   now, mapper>>

\* Lines 273-282: upload_to_supabase; stored, the handler answers success,
\* refused or unreachable, the request ends in HTTP 500.
Upload(w) ==
    /\ pc[w] = "upload"
    /\ log' = [log EXCEPT ![w] = Append(@, <<"upload">>)]
    /\ \E ok \in BOOLEAN :
         IF ok
         THEN /\ uploaded' = [uploaded EXCEPT ![w] = writer[w]]
              /\ response' = [response EXCEPT ![w] =
                                [status |-> 200, success |-> TRUE, detail |-> "pdf_url"]]
              /\ pc' = [pc EXCEPT ![w] = "done"]
         ELSE /\ Fail(w, "upload")
              /\ UNCHANGED uploaded
    /\ UNCHANGED <<env, request, fields_by_page, page_num, fpos, pages, writer, can,
                   temp_img_path, files, now, mapper>>

Next ==
    \E w \in Workers :
        \/ CheckConfig(w)
        \/ DownloadSource(w)
        \/ NextPage(w)
        \/ CreateOverlay(w)
        \/ FetchImage(w)
        \/ NameTemp(w)
        \/ SaveImage(w)
        \/ DrawImage(w)
        \/ CheckExists(w)
        \/ RemoveTemp(w)
        \/ MergeOverlay(w)
        \/ Upload(w)

Spec == Init /\ [][Next]_vars

\* ------------------------------------------------- the coordinate mapping

\* No request is served; convert_anvil_coordinates is about to be called on
\* a page height, a top-left y and a field height.
InitMapper ==
    /\ env = [url |-> TRUE, key |-> TRUE]
    /\ request = [w \in Workers |-> NoRequest]
    /\ pc = [w \in Workers |-> "off"]
    /\ fields_by_page = [w \in Workers |-> EmptyMap]
    /\ page_num = [w \in Workers |-> 0]
    /\ fpos = [w \in Workers |-> 0]
    /\ pages = [w \in Workers |-> <<>>]
    /\ writer = [w \in Workers |-> <<>>]
    /\ can = [w \in Workers |-> <<>>]
    /\ temp_img_path = [w \in Workers |-> NoPath]
    /\ log = [w \in Workers |-> <<>>]
    /\ uploaded = [w \in Workers |-> NoDoc]
    /\ response = [w \in Workers |-> NoResponse]
    /\ files = [n \in 0 .. MaxClock |-> NoFile]
    /\ now = 0
    /\ \E ph \in {v \in Floats : v > 0}, y \in Floats, h \in {v \in Floats : v >= 0} :
         mapper = [page_height |-> ph, anvil_y |-> y, field_height |-> h,
                   returned |-> FALSE, pdf_y |-> 0]

\* Line 117: y = self.convert_anvil_coordinates(anvil_y, page_height, height).
ConvertCoordinates ==
    /\ mapper # NoCall
    /\ ~mapper.returned
    /\ mapper' = [mapper EXCEPT
                    !.returned = TRUE,
                    !.pdf_y = convert_anvil_coordinates(mapper.anvil_y, mapper.page_height,
                                                        mapper.field_height)]
    /\ UNCHANGED <<env, request, pc, fields_by_page, page_num, fpos, pages, writer, can,
                   temp_img_path, log, uploaded, response, files, now>>

NextMapper == ConvertCoordinates

SpecMapper == InitMapper /\ [][NextMapper]_vars

\* ------------------------------------------------------------- properties

Serving == {w \in Workers : request[w] # NoRequest}

LogHas(w, e) == \E i \in DOMAIN log[w] : log[w][i] = e

\* fill_pdf has returned its output to the handler.
FillReturned(w) == pc[w] = "upload" \/ LogHas(w, <<"upload">>)

InRange(w, i) == request[w].fields[i].field_page_num \in 0 .. (request[w].numPages - 1)

\* The fields merged onto page p (1-based position) of worker w's document.
MergedOn(w, p) == [k \in 1 .. Len(pages[w][p]) |-> pages[w][p][k].field]

\* Field i's overlay has been merged onto the page it names.
IsMerged(w, i) ==
    LET p == request[w].fields[i].field_page_num + 1
    IN  /\ p \in 1 .. Len(pages[w])
        /\ \E k \in 1 .. Len(pages[w][p]) : pages[w][p][k].field = i

Increasing(seq) == \A j, k \in DOMAIN seq : j < k => seq[j] < seq[k]

Letters ==
    {"a", "b", "c", "d", "e", "f", "g", "h", "i", "j", "k", "l", "m", "n", "o", "p",
     "q", "r", "s", "t", "u", "v", "w", "x", "y", "z"}

\* A syntactically valid absolute URL: a scheme of letters, "://", a host.
IsAbsoluteUrl(s) ==
    \E i \in 2 .. (Len(s) - 3) :
        /\ s[i] = ":" /\ s[i + 1] = "/" /\ s[i + 2] = "/"
        /\ \A j \in 1 .. (i - 1) : s[j] \in Letters

\* C1: when create_overlay returns, the scratch file that invocation wrote
\* is gone, whichever step failed after it was written.
C1_NoScratchFileLeft ==
    \A w \in Serving :
        pc[w] = "merge" =>
            \A n \in DOMAIN files :
                files[n] # NoFile => ~(files[n].owner = w /\ files[n].field = CurIndex(w))

\* C2: a failed image fetch of a field leaves that field's overlay holding
\* exactly the "[Signature Error]" label, which is merged like any other;
\* the request is ended only by a later merge or upload failure, and a
\* successful response has every field of the document's pages merged.
C2_FetchFailureDegrades ==
    \A w \in Serving :
        /\ \A i \in DOMAIN request[w].fields :
              LogHas(w, <<"fetch", i, "error">>) =>
                  \/ /\ pc[w] = "merge" /\ CurIndex(w) = i
                     /\ can[w] = <<ErrorLabel>>
                  \/ /\ IsMerged(w, i)
                     /\ \A k \in DOMAIN pages[w][request[w].fields[i].field_page_num + 1] :
                           LET m == pages[w][request[w].fields[i].field_page_num + 1][k]
                           IN  m.field = i => m.ops = <<ErrorLabel>>
                  \/ /\ pc[w] = "done"
                     /\ response[w].detail \in {"merge", "upload"}
        /\ (pc[w] = "done" /\ response[w].success) =>
              \A i \in DOMAIN request[w].fields : InRange(w, i) => IsMerged(w, i)

C2_Witness ==
    \E w \in Serving :
        /\ pc[w] = "done" /\ response[w].success
        /\ Len(request[w].fields) = 2
        /\ LogHas(w, <<"fetch", 1, "error">>)
        /\ uploaded[w][1].merges =
              <<[field |-> 1, ops |-> <<ErrorLabel>>],
                [field |-> 2, ops |-> <<TextOp(PlainText)>>]>>

\* C3: a success response means the source was downloaded, every page is
\* in the output with every field of its pages merged, and that output was
\* uploaded; any failure ends the request in one HTTP 500 with nothing
\* uploaded, and an upload is attempted only after fill_pdf returned.
C3_NoPartialSuccess ==
    \A w \in Serving :
        /\ pc[w] = "done" <=> response[w] # NoResponse
        /\ (pc[w] = "done" /\ response[w].success) =>
              /\ response[w].status = 200
              /\ LogHas(w, <<"source">>)
              /\ Len(writer[w]) = request[w].numPages
              /\ \A i \in DOMAIN request[w].fields : InRange(w, i) => IsMerged(w, i)
              /\ uploaded[w] = writer[w]
        /\ (pc[w] = "done" /\ ~response[w].success) =>
              /\ response[w].status = 500
              /\ uploaded[w] = NoDoc
        /\ pc[w] # "done" => uploaded[w] = NoDoc
        /\ LogHas(w, <<"upload">>) =>
              /\ Len(writer[w]) = request[w].numPages
              /\ \A i \in DOMAIN request[w].fields : InRange(w, i) => IsMerged(w, i)

C3_Witness ==
    \E w \in Serving :
        /\ pc[w] = "done" /\ ~response[w].success
        /\ response[w].detail = "merge"
        /\ \E i \in DOMAIN request[w].fields : IsMerged(w, i)
        /\ ~LogHas(w, <<"upload">>)

\* C4: once fill_pdf has returned, the output has as many pages as the
\* source, in the source's order.
C4_PageCountAndOrder ==
    \A w \in Serving :
        FillReturned(w) =>
            /\ Len(writer[w]) = request[w].numPages
            /\ \A p \in DOMAIN writer[w] : writer[w][p].src = p - 1

C4_Witness ==
    \E w \in Serving :
        /\ pc[w] = "upload"
        /\ request[w].numPages = 1
        /\ Len(request[w].fields) = 3
        /\ request[w].fields[1].field_page_num = 0
        /\ request[w].fields[2].field_page_num = 1
        /\ request[w].fields[3].field_page_num = 0
        /\ Len(writer[w]) = 1

\* C5: the overlays merged onto a page are those of its fields in the order
\* of the input list, at every moment, and all of them once fill_pdf returned.
C5_MergeOrderIsInputOrder ==
    \A w \in Serving :
        \A p \in DOMAIN pages[w] :
            /\ Increasing(MergedOn(w, p))
            /\ FillReturned(w) =>
                  {MergedOn(w, p)[k] : k \in DOMAIN MergedOn(w, p)}
                      = {i \in DOMAIN request[w].fields :
                            request[w].fields[i].field_page_num = p - 1}

C5_Witness ==
    \E w \in Serving :
        /\ pc[w] = "upload"
        /\ request[w].numPages = 2
        /\ Len(request[w].fields) = 3
        /\ request[w].fields[1].field_page_num = 0
        /\ request[w].fields[2].field_page_num = 1
        /\ request[w].fields[3].field_page_num = 0
        /\ MergedOn(w, 1) = <<1, 3>>
        /\ MergedOn(w, 2) = <<2>>

\* C6: an overlay is merged onto a page only for a field naming that page;
\* a field naming no page of the document is never rendered or fetched, and
\* a page no field names is in the output with no merge.
C6_OnlyTargetedPagesChange ==
    \A w \in Serving :
        /\ \A p \in DOMAIN pages[w] :
              \A k \in DOMAIN pages[w][p] :
                  request[w].fields[pages[w][p][k].field].field_page_num = p - 1
        /\ \A i \in DOMAIN request[w].fields :
              ~InRange(w, i) =>
                  /\ ~LogHas(w, <<"render", i>>)
                  /\ ~LogHas(w, <<"fetch", i, "ok">>)
                  /\ ~LogHas(w, <<"fetch", i, "error">>)
        /\ \A p \in DOMAIN writer[w] :
              (\A i \in DOMAIN request[w].fields :
                  request[w].fields[i].field_page_num # writer[w][p].src)
                  => writer[w][p].merges = <<>>

C6_Witness ==
    \E w \in Serving :
        /\ pc[w] = "upload"
        /\ request[w].numPages = 2
        /\ Len(request[w].fields) = 1
        /\ request[w].fields[1].field_page_num = 2
        /\ request[w].fields[1].field_answer = HttpUrl
        /\ log[w] = <<<<"source">>>>
        /\ writer[w] = <<[src |-> 0, merges |-> <<>>], [src |-> 1, merges |-> <<>>]>>

\* C7: with the storage URL or key absent the request is answered with a
\* failure and nothing is downloaded, fetched, rendered or uploaded for it.
C7_ConfigRejectsFirst ==
    \A w \in Serving :
        (~env.url \/ ~env.key) =>
            /\ log[w] = <<>>
            /\ pages[w] = <<>> /\ writer[w] = <<>> /\ uploaded[w] = NoDoc
            /\ pc[w] \in {"start", "done"}
            /\ pc[w] = "done" => response[w].status = 500

C7_Witness ==
    \E w \in Serving :
        /\ env.url /\ ~env.key
        /\ pc[w] = "done"
        /\ response[w].status = 500
        /\ Len(request[w].fields) > 0

\* Every difference and sum the round trip computes is a float (none rounds).
NothingRounds ==
    /\ Round(mapper.page_height - mapper.anvil_y) = mapper.page_height - mapper.anvil_y
    /\ Round(mapper.page_height - mapper.anvil_y - mapper.field_height)
          = mapper.page_height - mapper.anvil_y - mapper.field_height
    /\ Round(mapper.page_height - mapper.field_height)
          = mapper.page_height - mapper.field_height

\* C8 as stated: for every input the result plus topLeftY plus elementHeight
\* equals pageHeight.
C8_RoundTripAlways ==
    (mapper # NoCall /\ mapper.returned) =>
        FloatAdd(FloatAdd(mapper.pdf_y, mapper.anvil_y), mapper.field_height)
            = mapper.page_height

\* C8 amended: the result is pageHeight - topLeftY - elementHeight in floating
\* point, and the round trip gives back pageHeight whenever no difference or
\* sum on the way rounds, a negative result included.
C8_RoundTripWhenExact ==
    (mapper # NoCall /\ mapper.returned /\ NothingRounds) =>
        /\ mapper.pdf_y = mapper.page_height - mapper.anvil_y - mapper.field_height
        /\ FloatAdd(FloatAdd(mapper.pdf_y, mapper.anvil_y), mapper.field_height)
              = mapper.page_height

C8_Witness ==
    /\ mapper # NoCall /\ mapper.returned /\ NothingRounds
    /\ mapper.field_height > 0 /\ mapper.anvil_y > 0
    /\ mapper.pdf_y < 0

\* C9: a merged field had its image fetched exactly when its content is a
\* syntactically valid absolute URL, and was drawn as its literal text
\* otherwise.
C9_ImageIffAbsoluteUrl ==
    \A w \in Serving :
        \A i \in DOMAIN request[w].fields :
            IsMerged(w, i) =>
                LET url == IsAbsoluteUrl(request[w].fields[i].field_answer)
                    fetched == \/ LogHas(w, <<"fetch", i, "ok">>)
                               \/ LogHas(w, <<"fetch", i, "error">>)
                IN  fetched <=> url

\* C10: two invocations staging an image at overlapping times use different
\* scratch file names.
C10_DistinctScratchNames ==
    \A w1, w2 \in Serving :
        (/\ w1 # w2
         /\ pc[w1] \in {"save", "draw", "exists", "remove"}
         /\ pc[w2] \in {"save", "draw", "exists", "remove"})
            => temp_img_path[w1] # temp_img_path[w2]

====
